---- MODULE Spec2Model ----
(***************************************************************************)
(* Model of the master coordinator of nci_stitcher_master.py: the          *)
(* WorkerStateSet registry, the fleet discovery loop (new_host_monitor),   *)
(* the dispatcher (schedule_worker / send_job) and the completion handler  *)
(* (processing_complete).                                                  *)
(*                                                                         *)
(* Three specifications share the registry operators:                      *)
(*   SpecRegistry  - the WorkerStateSet methods called in any order by     *)
(*                   concurrent callers (the class taken on its own);      *)
(*   Spec          - the coordinator's threads: the discovery loop, the    *)
(*                   dispatch loop of schedule_worker over a payload list, *)
(*                   and the request handlers of processing_complete;      *)
(*   SpecProgram   - the program from the top of its main block: the work  *)
(*                   catalog is created (create_status_database), then the *)
(*                   discovery loop, schedule_worker from its SELECT on,   *)
(*                   and the request handlers run.                         *)
(* A `with self.lock` body is one atomic step; everything outside a lock   *)
(* is interleaved statement by statement.                                  *)
(***************************************************************************)
EXTENDS Integers, Sequences, FiniteSets, TLC

\* ------------------------------------------------------------------ bounds
NumCallers == 2
MaxJobs == 2

\* ------------------------------------------------------------- value sets
Hosts == {"w1:8888", "w2:8888"}
Callers == 1..NumCallers
\* the server runs each request in a thread of its own; two requests can
\* be inside processing_complete at once
Handlers == {"request1", "request2"}
NoHost == "unbound"
\* session ids are fresh uuid4 strings; the n-th one handed out is n, and 0
\* stands for an id the coordinator never issued (or a body without one)
NoSession == 0
SessionIds == 1..MaxJobs
\* the rows schedule_worker iterates over, one job payload per row
payload_list == [i \in 1..MaxJobs |-> i]

VARIABLES
    \* WorkerStateSet fields (GLOBAL_WORKER_STATE_SET)
    ready_host_set, running_host_set, host_ready_event,
    \* SpecRegistry: position and result of each get_ready_host caller
    reg_pc, reg_ret,
    \* history: the last registry method that ran, with argument, return
    \* value and the sets it started from
    last_op,
    \* history: how many callers were handed each host since it last entered
    \* the ready set
    granted,
    \* module globals
    SCHEDULED_MAP, RESULT_QUEUE, RESCHEDULE_QUEUE, GLOBAL_LOCK,
    \* new_host_monitor: its argument, position and locals
    worker_list, mon_pc, dead_hosts, session_list_to_remove,
    scan_pos, scan_len, scan_left, sweep_phase,
    \* schedule_worker / send_job: position in payload_list, position in
    \* send_job, its locals, and the number of session ids handed out
    job_index, sj_pc, worker_ip_port, session_id, response, next_session,
    \* processing_complete: position and locals of each request handler
    h_pc, h_session_id, h_host,
    \* history, kept until the next poll:
    \* sessions that were open on a host the current discovery cycle
    \* reported dead, and the length of RESCHEDULE_QUEUE at that time
    lost_sessions, resched_mark,
    \* history: per session, how many `del SCHEDULED_MAP[...]` completed,
    \* and the sessions whose payload the sweep put on RESCHEDULE_QUEUE
    deletes, rescheduled,
    \* history: the host set the most recent update_host_set call of the
    \* discovery loop was given, as a one-element sequence (empty before the
    \* first call), and the hosts set_ready_host was called with since
    reconciled_with, released_since,
    \* history: the row each session id was issued for
    session_job,
    \* the job_status table of the work catalog (empty sequence while the
    \* database file does not exist), the position of the main block and
    \* the position of schedule_worker
    job_status, main_pc, sw_pc,
    \* the stiched column of the rows behind payload_list
    row_stiched

registry_vars == <<ready_host_set, running_host_set, host_ready_event>>
caller_vars == <<reg_pc, reg_ret, last_op, granted>>
global_vars == <<SCHEDULED_MAP, RESULT_QUEUE, RESCHEDULE_QUEUE, GLOBAL_LOCK>>
monitor_vars == <<mon_pc, dead_hosts, session_list_to_remove,
                  scan_pos, scan_len, scan_left, sweep_phase,
                  lost_sessions,
                  resched_mark>>
send_job_vars == <<job_index, sj_pc, worker_ip_port, session_id, response,
                   next_session>>
handler_vars == <<h_pc, h_session_id, h_host>>
history_vars == <<deletes, rescheduled>>
trace_vars == <<reconciled_with, released_since, session_job>>
catalog_vars == <<job_status, main_pc, sw_pc, row_stiched>>
system_vars == <<global_vars, worker_list, monitor_vars, send_job_vars,
                 handler_vars, history_vars, trace_vars, catalog_vars>>
vars == <<registry_vars, caller_vars, system_vars>>

\* ------------------------------------------------ WorkerStateSet methods
\* Each method is a function of the fields and the argument; the result
\* carries the new fields and the returned value.
Reg(ready, running, event, ret) ==
    [ready |-> ready, running |-> running, event |-> event, ret |-> ret]

add_host_without_signal(ready, running, event, host) ==
    IF host \in ready \/ host \in running
    THEN Reg(ready, running, event, FALSE)
    ELSE Reg(ready \cup {host}, running, event, TRUE)

add_host(ready, running, event, host) ==
    IF host \in ready \/ host \in running
    THEN Reg(ready, running, event, FALSE)
    ELSE Reg(ready \cup {host}, running, TRUE, TRUE)

get_ready_host_keeps_ready(ready, running, event, ready_host) ==
    Reg(ready, running \cup {ready_host}, event, ready_host)

\* the locked body of get_ready_host, for the element next(iter(...)) yields
get_ready_host(ready, running, event, ready_host) ==
    LET new_ready == ready \ {ready_host}
    IN  Reg(new_ready, running \cup {ready_host},
            IF new_ready = {} THEN FALSE ELSE event, ready_host)

get_counts(ready, running) ==
    <<Cardinality(running), Cardinality(ready)>>

remove_host(ready, running, event, host) ==
    IF host \in ready
    THEN Reg(ready \ {host}, running, event, TRUE)
    ELSE IF host \in running
         THEN Reg(ready, running \ {host}, event, TRUE)
         ELSE Reg(ready, running, event, FALSE)

set_ready_host_keeps_running(ready, running, event, host) ==
    Reg(ready \cup {host}, running, TRUE, "None")

set_ready_host(ready, running, event, host) ==
    Reg(ready \cup {host}, running \ {host}, TRUE, "None")

new_hosts_ignoring_running(ready, running, active_host_set) ==
    active_host_set \ ready

\* new_hosts = active_host_set - self.ready_host_set - self.running_host_set
new_hosts(ready, running, active_host_set) ==
    (active_host_set \ ready) \ running

update_host_set_ready_only(ready, running, event, active_host_set) ==
    LET dead_ready == ready \ active_host_set
        new_ready == (ready \ dead_ready)
                         \cup new_hosts(ready, running, active_host_set)
    IN  Reg(new_ready, running,
            IF new_ready # {} THEN TRUE ELSE event, dead_ready)

update_host_set(ready, running, event, active_host_set) ==
    LET dead_ready == ready \ active_host_set
        dead_running == running \ active_host_set
        removed_hosts == dead_ready \cup dead_running
        new_ready == (ready \ dead_ready)
                         \cup new_hosts(ready, running, active_host_set)
    IN  Reg(new_ready, running \ dead_running,
            IF new_ready # {} THEN TRUE ELSE event, removed_hosts)

\* ------------------------------------------------------- Session Table
\* the dict send_job stores under a session id
session_entry(job_payload, host) ==
    [status_url |-> "status_url", job_payload |-> job_payload,
     last_time_accessed |-> "time", host |-> host]

\* the key the dead-host sweep reads from a session entry
SWEEP_PAYLOAD_KEY == "watershed_fid_tuple_list"

\* d[key] raises KeyError when the key is missing
subscript_raises(d, key) == key \notin DOMAIN d

del_never_raises(d, key) == FALSE

\* `del d[key]` raises KeyError when the key is missing
del_raises(d, key) == key \notin DOMAIN d

del_item_keeps(d, key) == d

\* del d[key] for a key that is present
del_item(d, key) == [x \in DOMAIN d \ {key} |-> d[x]]

set_item(d, key, value) ==
    [x \in DOMAIN d \cup {key} |-> IF x = key THEN value ELSE d[x]]

\* the names send_job can resolve: its parameter and locals (the module
\* globals it uses are constants and functions, none called job_tuple)
send_job_names ==
    {"job_payload", "callback_url", "worker_ip_port", "session_id",
     "data_payload", "worker_rest_url", "response", "e"}

\* the names the except block of send_job reads before it reaches
\* remove_host: LOGGER.exception(..., worker_ip_port, job_tuple)
except_block_names == {"e", "worker_ip_port", "job_tuple"}

send_job_except_returns_host(ready, running, event, worker) ==
    IF worker = NoHost
    THEN Reg(ready, running, event, "NameError")
    ELSE set_ready_host(ready, running, event, worker)

\* the except block of send_job: evaluating a name that is unbound
\* (worker_ip_port when get_ready_host raised) or undefined raises before
\* remove_host is called; the exception then propagates either way
send_job_except(ready, running, event, worker) ==
    IF except_block_names \subseteq send_job_names /\ worker # NoHost
    THEN remove_host(ready, running, event, worker)
    ELSE Reg(ready, running, event, "NameError")

send_job_retry_stops_after_first == TRUE

\* the retry decorator on send_job names only the two wait_exponential
\* settings: no stop_max_attempt_number or stop_max_delay, so the retry
\* never stops, and no retry_on_exception, so every exception is retried
send_job_retry_stops == FALSE

\* the row the dispatcher works on after send_job raised: the retry calls
\* send_job again with the same argument; were the retry to give up, the
\* exception would reach schedule_worker, whose except block re-raises and
\* whose own retry decorator starts schedule_worker over from the first row
row_after_raise(index) ==
    IF send_job_retry_stops THEN 1 ELSE index

\* -------------------------------------------------------- work catalog
GRID_STEP_SIZE == 2

SCENARIO_ID_LIST ==
    <<"baseline_potter", "baseline_napp_rate", "ag_expansion",
      "ag_intensification", "restoration_potter", "restoration_napp_rate">>

\* the keys of GLOBAL_STITCH_MAP in the order a dict iterates them
GLOBAL_STITCH_MAP == <<"n_export", "modified_load">>

\* len(range(start, stop, step)) for a step other than 0
range_len(start, stop, step) ==
    IF step > 0
    THEN IF start < stop THEN (stop - start + step - 1) \div step ELSE 0
    ELSE IF start > stop THEN (start - stop - step - 1) \div (-step) ELSE 0

\* list(range(start, stop, step))
range(start, stop, step) ==
    [i \in 1..range_len(start, stop, step) |-> start + (i - 1) * step]

\* list(reversed(seq))
reversed(seq) == [i \in 1..Len(seq) |-> seq[Len(seq) + 1 - i]]

\* the values the two inner loops of create_status_database run over
lat_min_list == reversed(range(90, -90, -GRID_STEP_SIZE))
lng_max_list == range(-180, 180, GRID_STEP_SIZE)

\* the columns of CREATE TABLE job_status
job_status_columns ==
    {"scenario_id", "raster_id", "lng_min", "lat_min", "lng_max", "lat_max",
     "stiched"}

\* the entries the two inner loops produce for one scenario_id and one
\* raster_id, in loop order: (lng_min, lat_min, lng_max, lat_max)
cell_list ==
    LET n_lng == Len(lng_max_list)
        n_lat == Len(lat_min_list)
    IN  [i \in 1..(n_lat * n_lng) |->
            LET lat_min == lat_min_list[((i - 1) \div n_lng) + 1]
                lng_max == lng_max_list[((i - 1) % n_lng) + 1]
                lat_max == lat_min + GRID_STEP_SIZE
                lng_min == lng_max - GRID_STEP_SIZE
            IN  <<lng_min, lat_min, lng_max, lat_max>>]

\* the (scenario_id, raster_id) pairs of the two outer loops, in loop order
scenario_raster_list ==
    LET n_raster == Len(GLOBAL_STITCH_MAP)
    IN  [i \in 1..(Len(SCENARIO_ID_LIST) * n_raster) |->
            <<SCENARIO_ID_LIST[((i - 1) \div n_raster) + 1],
              GLOBAL_STITCH_MAP[((i - 1) % n_raster) + 1]>>]

\* the table after executemany of the INSERT and the commit. The inner
\* loops do not depend on the outer ones and every row is inserted with
\* stiched = 0, so the table is held by its factors: it has the row
\* (scenario_id, raster_id, lng_min, lat_min, lng_max, lat_max, stiched)
\* for every pair in scenario_raster and every entry of cells
create_status_database ==
    [columns |-> job_status_columns,
     scenario_raster |-> scenario_raster_list,
     cells |-> cell_list,
     stiched |-> 0]

\* the rows of a table for one scenario_id and raster_id, in insertion order
job_status_rows(table, scenario_id, raster_id) ==
    [i \in 1..Len(table.cells) |->
        <<scenario_id, raster_id>> \o table.cells[i] \o <<table.stiched>>]

\* the columns the SELECT of schedule_worker names, in its result list and
\* in its WHERE clause
select_columns == {"scenario_id", "raster_id", "ul_grid_lng", "ul_grid_lat"}
where_columns == {"stiched"}

\* cursor.execute raises sqlite3.OperationalError (no such column) when the
\* statement names a column the table does not have
execute_raises(table) ==
    ~((select_columns \cup where_columns) \subseteq table.columns)

\* ------------------------------------------------------------------ Init
InitShared ==
    /\ ready_host_set = {}
    /\ running_host_set = {}
    /\ host_ready_event = FALSE
    /\ reg_pc = [c \in Callers |-> "idle"]
    /\ reg_ret = [c \in Callers |-> NoHost]
    /\ last_op = [op |-> "init", arg |-> {}, ret |-> {},
                  pre_ready |-> {}, pre_running |-> {}]
    /\ granted = [h \in Hosts |-> 0]
    /\ SCHEDULED_MAP = <<>>
    /\ RESULT_QUEUE = <<>>
    /\ RESCHEDULE_QUEUE = <<>>
    /\ GLOBAL_LOCK = FALSE
    /\ worker_list \in SUBSET Hosts
    /\ mon_pc = "start"
    /\ dead_hosts = {}
    /\ session_list_to_remove = <<>>
    /\ scan_pos = 0
    /\ scan_len = 0
    /\ scan_left = 0
    /\ sweep_phase = "put"
    /\ job_index = 1
    /\ sj_pc = "wait"
    /\ worker_ip_port = NoHost
    /\ session_id = NoSession
    /\ response = "none"
    /\ next_session = 1
    /\ h_pc = [k \in Handlers |-> "idle"]
    /\ h_session_id = [k \in Handlers |-> NoSession]
    /\ h_host = [k \in Handlers |-> NoHost]
    /\ lost_sessions = {}
    /\ resched_mark = 0
    /\ deletes = [s \in SessionIds |-> 0]
    /\ rescheduled = {}
    /\ reconciled_with = <<>>
    /\ released_since = {}
    /\ session_job = <<>>
    /\ job_status = <<>>
    /\ row_stiched = [i \in 1..MaxJobs |-> 0]

\* Spec starts where the threads run and schedule_worker is about to loop
\* over payload_list; the table behind the list is not carried along
Init ==
    /\ InitShared
    /\ main_pc = "run"
    /\ sw_pc = "loop"

\* the whole program starts at the top of the main block
InitProgram ==
    /\ InitShared
    /\ main_pc = "create"
    /\ sw_pc = "query"

\* ---------------------------------------------------------- SpecRegistry
Op(name, arg, ret) ==
    [op |-> name, arg |-> arg, ret |-> ret,
     pre_ready |-> ready_host_set, pre_running |-> running_host_set]

\* hosts that a step puts into the ready set start a new grant period
Regrant(new_ready) ==
    [h \in Hosts |-> IF h \in new_ready /\ h \notin ready_host_set
                     THEN 0 ELSE granted[h]]

Apply(r) ==
    /\ ready_host_set' = r.ready
    /\ running_host_set' = r.running
    /\ host_ready_event' = r.event

RegAddHost(host) ==
    LET r == add_host(ready_host_set, running_host_set, host_ready_event, host)
    IN  /\ Apply(r)
        /\ last_op' = Op("add_host", {host}, {ToString(r.ret)})
        /\ granted' = Regrant(r.ready)
        /\ UNCHANGED <<reg_pc, reg_ret, system_vars>>

RegRemoveHost(host) ==
    LET r == remove_host(ready_host_set, running_host_set, host_ready_event,
                         host)
    IN  /\ Apply(r)
        /\ last_op' = Op("remove_host", {host}, {ToString(r.ret)})
        /\ UNCHANGED <<reg_pc, reg_ret, granted, system_vars>>

RegSetReadyHost(host) ==
    LET r == set_ready_host(ready_host_set, running_host_set,
                            host_ready_event, host)
    IN  /\ Apply(r)
        /\ last_op' = Op("set_ready_host", {host}, {})
        /\ granted' = Regrant(r.ready)
        /\ UNCHANGED <<reg_pc, reg_ret, system_vars>>

RegUpdateHostSet(active_host_set) ==
    LET r == update_host_set(ready_host_set, running_host_set,
                             host_ready_event, active_host_set)
    IN  /\ Apply(r)
        /\ last_op' = Op("update_host_set", active_host_set, r.ret)
        /\ granted' = Regrant(r.ready)
        /\ UNCHANGED <<reg_pc, reg_ret, system_vars>>

\* a caller enters get_ready_host and reaches host_ready_event.wait()
RegGetCall(c) ==
    /\ reg_pc[c] \in {"idle", "returned", "raised"}
    /\ reg_pc' = [reg_pc EXCEPT ![c] = "wait"]
    /\ reg_ret' = [reg_ret EXCEPT ![c] = NoHost]
    /\ UNCHANGED <<registry_vars, last_op, granted, system_vars>>

\* host_ready_event.wait() returns once the flag is set
RegGetWait(c) ==
    /\ reg_pc[c] = "wait"
    /\ host_ready_event
    /\ reg_pc' = [reg_pc EXCEPT ![c] = "lock"]
    /\ UNCHANGED <<registry_vars, reg_ret, last_op, granted, system_vars>>

\* the locked body: next(iter(ready_host_set)) raises StopIteration on an
\* empty set, otherwise one element is moved to running_host_set
RegGetAcquire(c) ==
    /\ reg_pc[c] = "lock"
    /\ UNCHANGED system_vars
    /\ IF ready_host_set = {}
       THEN /\ reg_pc' = [reg_pc EXCEPT ![c] = "raised"]
            /\ last_op' = Op("get_ready_host", {}, {"StopIteration"})
            /\ UNCHANGED <<registry_vars, reg_ret, granted>>
       ELSE \E ready_host \in ready_host_set :
              LET r == get_ready_host(ready_host_set, running_host_set,
                                      host_ready_event, ready_host)
              IN  /\ Apply(r)
                  /\ reg_pc' = [reg_pc EXCEPT ![c] = "returned"]
                  /\ reg_ret' = [reg_ret EXCEPT ![c] = r.ret]
                  /\ last_op' = Op("get_ready_host", {}, {r.ret})
                  /\ granted' = [granted EXCEPT ![r.ret] = @ + 1]

NextRegistry ==
    \/ \E host \in Hosts : RegAddHost(host)
    \/ \E host \in Hosts : RegRemoveHost(host)
    \/ \E host \in Hosts : RegSetReadyHost(host)
    \/ \E active_host_set \in SUBSET Hosts : RegUpdateHostSet(active_host_set)
    \/ \E c \in Callers : RegGetCall(c)
    \/ \E c \in Callers : RegGetWait(c)
    \/ \E c \in Callers : RegGetAcquire(c)

SpecRegistry == Init /\ [][NextRegistry]_vars

\* a caller that is inside get_ready_host keeps running
FairSpecRegistry ==
    /\ SpecRegistry
    /\ \A c \in Callers : WF_vars(RegGetWait(c))
    /\ \A c \in Callers : WF_vars(RegGetAcquire(c))

\* =================================================== the coordinator
forwarded == {RESULT_QUEUE[i] : i \in 1..Len(RESULT_QUEUE)}

\* ------------------------------------------------- new_host_monitor
monitor_after_raise_leaves_loop == "returned"

\* where new_host_monitor is after an exception inside a cycle: the try
\* is the body of `while True`, and its `except Exception` only logs, so
\* control is back at the top of the loop
monitor_after_raise == "caught"

monitor_locals_reset ==
    /\ dead_hosts' = {}
    /\ session_list_to_remove' = <<>>
    /\ scan_pos' = 0
    /\ scan_len' = 0
    /\ scan_left' = 0
    /\ sweep_phase' = "put"

\* `if worker_list:` - one reconciliation against the static list and
\* return; otherwise enter the polling loop
MonitorStart ==
    /\ main_pc = "run"
    /\ mon_pc = "start"
    /\ IF worker_list # {}
       THEN LET r == update_host_set(ready_host_set, running_host_set,
                                     host_ready_event, worker_list)
            IN  /\ Apply(r)
                /\ mon_pc' = "returned"
       ELSE /\ mon_pc' = "poll"
            /\ UNCHANGED registry_vars
    /\ UNCHANGED <<caller_vars, global_vars, worker_list, dead_hosts,
                   session_list_to_remove, scan_pos, scan_len, scan_left,
                   sweep_phase, lost_sessions, resched_mark, send_job_vars,
                   handler_vars, history_vars>>
    /\ reconciled_with' = IF worker_list # {} THEN <<worker_list>>
                                             ELSE reconciled_with
    /\ UNCHANGED <<released_since, session_job, catalog_vars>>

\* one poll, from the top of the loop: after time.sleep (pc "sleep") or
\* after the except block at the bottom of the loop (pc "caught"), the
\* listing yields working_host_set and update_host_set reconciles and
\* returns dead_hosts; `if dead_hosts:` leads to the `with GLOBAL_LOCK`
\* statement (pc "lock", the lock not yet taken) or to time.sleep
MonitorPoll(working_host_set) ==
    /\ mon_pc \in {"poll", "sleep", "caught"}
    /\ LET r == update_host_set(ready_host_set, running_host_set,
                                host_ready_event, working_host_set)
       IN  /\ Apply(r)
           /\ dead_hosts' = r.ret
           /\ lost_sessions' =
                 {<<s, SCHEDULED_MAP[s].job_payload>> :
                    s \in {x \in DOMAIN SCHEDULED_MAP :
                             SCHEDULED_MAP[x].host \in r.ret}}
           /\ resched_mark' = Len(RESCHEDULE_QUEUE)
           /\ mon_pc' = IF r.ret = {} THEN "sleep" ELSE "lock"
    /\ UNCHANGED <<caller_vars, global_vars, worker_list,
                   session_list_to_remove, scan_pos, scan_len, scan_left,
                   sweep_phase, send_job_vars, handler_vars, history_vars>>
    /\ reconciled_with' = <<working_host_set>>
    /\ released_since' = {}
    /\ UNCHANGED <<session_job, catalog_vars>>

\* the listing command fails or its output is malformed: the exception
\* reaches the handler at the bottom of the loop
MonitorPollFails ==
    /\ mon_pc \in {"poll", "sleep", "caught"}
    /\ mon_pc' = monitor_after_raise
    /\ lost_sessions' = {}
    /\ resched_mark' = Len(RESCHEDULE_QUEUE)
    /\ UNCHANGED <<registry_vars, caller_vars, global_vars, worker_list,
                   dead_hosts, session_list_to_remove, scan_pos, scan_len,
                   scan_left, sweep_phase, send_job_vars, handler_vars,
                   history_vars>>
    /\ UNCHANGED <<trace_vars, catalog_vars>>

\* `with GLOBAL_LOCK:` and `session_list_to_remove = []`; no other thread
\* ever takes GLOBAL_LOCK, and the other threads run on while it is held
MonitorLock ==
    /\ mon_pc = "lock"
    /\ ~GLOBAL_LOCK
    /\ GLOBAL_LOCK' = TRUE
    /\ session_list_to_remove' = <<>>
    /\ mon_pc' = "iter"
    /\ UNCHANGED <<registry_vars, caller_vars, SCHEDULED_MAP, RESULT_QUEUE,
                   RESCHEDULE_QUEUE, worker_list, dead_hosts, scan_pos,
                   scan_len, scan_left, sweep_phase, lost_sessions,
                   resched_mark, send_job_vars, handler_vars, history_vars>>
    /\ UNCHANGED <<trace_vars, catalog_vars>>

\* the head of `for session_id, value in SCHEDULED_MAP.items()`: the
\* iterator is created and records the size of the dict (scan_len) and the
\* number of entries it has still to yield (scan_left)
MonitorIter ==
    /\ mon_pc = "iter"
    /\ scan_len' = Cardinality(DOMAIN SCHEDULED_MAP)
    /\ scan_left' = Cardinality(DOMAIN SCHEDULED_MAP)
    /\ scan_pos' = 0
    /\ mon_pc' = "scan"
    /\ UNCHANGED <<registry_vars, caller_vars, global_vars, worker_list,
                   dead_hosts, session_list_to_remove, sweep_phase,
                   lost_sessions, resched_mark, send_job_vars, handler_vars,
                   history_vars>>
    /\ UNCHANGED <<trace_vars, catalog_vars>>

\* what the dict iterator does when it finds a further entry after it has
\* yielded as many as the dict held at its creation (one entry deleted and
\* another stored in between, the size the same): an interpreter from
\* CPython 3.8 on raises RuntimeError, an earlier one yields the entry;
\* the repository names no interpreter version
dict_keys_changed_outcomes == {"RuntimeError", "yield"}

\* one step of `for session_id, value in SCHEDULED_MAP.items()`: the
\* iterator raises RuntimeError when the dict changed size since the
\* iteration began, else goes to the next entry in insertion order; at the
\* end of the dict the second loop is next, GLOBAL_LOCK still held
MonitorScan ==
    /\ mon_pc = "scan"
    /\ LET rest == {s \in DOMAIN SCHEDULED_MAP : s > scan_pos}
           s == CHOOSE x \in rest : \A y \in rest : x <= y
           raise == /\ mon_pc' = monitor_after_raise
                    /\ GLOBAL_LOCK' = FALSE
                    /\ monitor_locals_reset
       IN  IF Cardinality(DOMAIN SCHEDULED_MAP) # scan_len
           THEN raise
           ELSE IF rest = {}
                THEN /\ mon_pc' = "sweep"
                     /\ UNCHANGED <<GLOBAL_LOCK, dead_hosts,
                                    session_list_to_remove, scan_pos,
                                    scan_len, scan_left, sweep_phase>>
                ELSE \E outcome \in dict_keys_changed_outcomes :
                       IF scan_left = 0 /\ outcome = "RuntimeError"
                       THEN raise
                       ELSE /\ scan_pos' = s
                            /\ scan_left' = IF scan_left = 0 THEN 0
                                            ELSE scan_left - 1
                            /\ session_list_to_remove' =
                                  IF SCHEDULED_MAP[s].host \in dead_hosts
                                  THEN Append(session_list_to_remove, s)
                                  ELSE session_list_to_remove
                            /\ UNCHANGED <<mon_pc, GLOBAL_LOCK, dead_hosts,
                                           scan_len, sweep_phase>>
    /\ UNCHANGED <<registry_vars, caller_vars, SCHEDULED_MAP, RESULT_QUEUE,
                   RESCHEDULE_QUEUE, worker_list, lost_sessions,
                   resched_mark, send_job_vars, handler_vars, history_vars>>
    /\ UNCHANGED <<trace_vars, catalog_vars>>

\* one statement of `for session_id in session_list_to_remove`: first the
\* RESCHEDULE_QUEUE.put(SCHEDULED_MAP[session_id][...]), then the del; a
\* KeyError leaves the `with GLOBAL_LOCK` block and the try. At the end of
\* the list the `with` block is left, which releases GLOBAL_LOCK whatever
\* the other threads did to SCHEDULED_MAP meanwhile, and time.sleep is next
MonitorSweep ==
    /\ mon_pc = "sweep"
    /\ LET s == Head(session_list_to_remove)
       IN  IF session_list_to_remove = <<>>
           THEN /\ mon_pc' = "sleep"
                /\ GLOBAL_LOCK' = FALSE
                /\ monitor_locals_reset
                /\ UNCHANGED <<SCHEDULED_MAP, RESCHEDULE_QUEUE,
                               history_vars>>
           ELSE IF sweep_phase = "put"
           THEN IF \/ subscript_raises(SCHEDULED_MAP, s)
                   \/ subscript_raises(SCHEDULED_MAP[s], SWEEP_PAYLOAD_KEY)
                THEN /\ mon_pc' = monitor_after_raise
                     /\ GLOBAL_LOCK' = FALSE
                     /\ monitor_locals_reset
                     /\ UNCHANGED <<SCHEDULED_MAP, RESCHEDULE_QUEUE,
                                    history_vars>>
                ELSE /\ RESCHEDULE_QUEUE' =
                           Append(RESCHEDULE_QUEUE,
                                  SCHEDULED_MAP[s][SWEEP_PAYLOAD_KEY])
                     /\ rescheduled' = rescheduled \cup {s}
                     /\ sweep_phase' = "del"
                     /\ UNCHANGED <<mon_pc, GLOBAL_LOCK, dead_hosts,
                                    session_list_to_remove, scan_pos,
                                    scan_len, scan_left, SCHEDULED_MAP,
                                    deletes>>
           ELSE IF del_raises(SCHEDULED_MAP, s)
                THEN /\ mon_pc' = monitor_after_raise
                     /\ GLOBAL_LOCK' = FALSE
                     /\ monitor_locals_reset
                     /\ UNCHANGED <<SCHEDULED_MAP, RESCHEDULE_QUEUE,
                                    history_vars>>
                ELSE /\ SCHEDULED_MAP' = del_item(SCHEDULED_MAP, s)
                     /\ deletes' = [deletes EXCEPT ![s] = @ + 1]
                     /\ session_list_to_remove' =
                           Tail(session_list_to_remove)
                     /\ sweep_phase' = "put"
                     /\ UNCHANGED <<mon_pc, GLOBAL_LOCK, dead_hosts,
                                    scan_pos, scan_len, scan_left,
                                    RESCHEDULE_QUEUE, rescheduled>>
    /\ UNCHANGED <<registry_vars, caller_vars, RESULT_QUEUE, worker_list,
                   lost_sessions, resched_mark, send_job_vars, handler_vars>>
    /\ UNCHANGED <<trace_vars, catalog_vars>>

MonitorNext ==
    \/ MonitorStart
    \/ \E working_host_set \in SUBSET Hosts : MonitorPoll(working_host_set)
    \/ MonitorPollFails
    \/ MonitorLock
    \/ MonitorIter
    \/ MonitorScan
    \/ MonitorSweep

\* ------------------------------------ schedule_worker loop and send_job
\* host_ready_event.wait() inside get_ready_host
SendJobWait ==
    /\ sj_pc = "wait"
    /\ host_ready_event
    /\ sj_pc' = "lock"
    /\ UNCHANGED <<registry_vars, caller_vars, global_vars, worker_list,
                   monitor_vars, job_index, worker_ip_port, session_id,
                   response, next_session, handler_vars, history_vars>>
    /\ UNCHANGED <<trace_vars, catalog_vars>>

\* the locked body of get_ready_host; StopIteration leaves worker_ip_port
\* unbound and enters the except block
SendJobAcquire ==
    /\ sj_pc = "lock"
    /\ IF ready_host_set = {}
       THEN /\ sj_pc' = "except"
            /\ UNCHANGED <<registry_vars, worker_ip_port>>
       ELSE \E ready_host \in ready_host_set :
              LET r == get_ready_host(ready_host_set, running_host_set,
                                      host_ready_event, ready_host)
              IN  /\ Apply(r)
                  /\ worker_ip_port' = r.ret
                  /\ sj_pc' = "post"
    /\ UNCHANGED <<caller_vars, global_vars, worker_list, monitor_vars,
                   job_index, session_id, response, next_session,
                   handler_vars, history_vars>>
    /\ UNCHANGED <<trace_vars, catalog_vars>>

\* session_id = uuid4(); requests.post(...): the call raises, or the
\* worker answers with a status that is ok or not
SendJobPost(outcome) ==
    /\ sj_pc = "post"
    /\ response' = outcome
    /\ IF outcome = "ok"
       THEN /\ session_id' = next_session
            /\ next_session' = next_session + 1
            /\ sj_pc' = "record"
       ELSE /\ sj_pc' = "except"
            /\ UNCHANGED <<session_id, next_session>>
    /\ UNCHANGED <<registry_vars, caller_vars, global_vars, worker_list,
                   monitor_vars, job_index, worker_ip_port, handler_vars,
                   history_vars>>
    /\ UNCHANGED <<trace_vars, catalog_vars>>

\* SCHEDULED_MAP[session_id] = {...}; send_job returns and the loop of
\* schedule_worker moves to the next row
SendJobRecord ==
    /\ sj_pc = "record"
    /\ SCHEDULED_MAP' =
          set_item(SCHEDULED_MAP, session_id,
                   session_entry(payload_list[job_index], worker_ip_port))
    /\ job_index' = job_index + 1
    /\ sj_pc' = IF job_index + 1 > Len(payload_list) THEN "done" ELSE "wait"
    /\ worker_ip_port' = NoHost
    /\ session_id' = NoSession
    /\ response' = "none"
    /\ UNCHANGED <<registry_vars, caller_vars, RESULT_QUEUE,
                   RESCHEDULE_QUEUE, GLOBAL_LOCK, worker_list, monitor_vars,
                   next_session, handler_vars, history_vars>>
    /\ session_job' = set_item(session_job, session_id,
                               payload_list[job_index])
    /\ UNCHANGED <<reconciled_with, released_since, catalog_vars>>

\* the except block; the exception propagates and the retry decorator
\* calls send_job again with the same payload
SendJobExcept ==
    /\ sj_pc = "except"
    /\ Apply(send_job_except(ready_host_set, running_host_set,
                             host_ready_event, worker_ip_port))
    /\ sj_pc' = "wait"
    /\ job_index' = row_after_raise(job_index)
    /\ worker_ip_port' = NoHost
    /\ response' = "none"
    /\ UNCHANGED <<caller_vars, global_vars, worker_list, monitor_vars,
                   session_id, next_session, handler_vars, history_vars>>
    /\ UNCHANGED <<trace_vars, catalog_vars>>

SendJobNext ==
    \/ SendJobWait
    \/ SendJobAcquire
    \/ \E outcome \in {"ok", "not_ok", "raised"} : SendJobPost(outcome)
    \/ SendJobRecord
    \/ SendJobExcept

\* ------------------------------------------------- processing_complete
\* a POST arrives: payload['session_id'] and the lookup of the host; a
\* missing key raises and the handler only logs
CompleteRequest(k, sid) ==
    /\ main_pc = "run"
    /\ h_pc[k] = "idle"
    /\ IF sid = NoSession \/ subscript_raises(SCHEDULED_MAP, sid)
       THEN /\ h_pc' = [h_pc EXCEPT ![k] = "except"]
            /\ UNCHANGED <<h_session_id, h_host>>
       ELSE /\ h_pc' = [h_pc EXCEPT ![k] = "del"]
            /\ h_session_id' = [h_session_id EXCEPT ![k] = sid]
            /\ h_host' = [h_host EXCEPT ![k] = SCHEDULED_MAP[sid].host]
    /\ UNCHANGED <<registry_vars, caller_vars, global_vars, worker_list,
                   monitor_vars, send_job_vars, history_vars>>
    /\ UNCHANGED <<trace_vars, catalog_vars>>

\* del SCHEDULED_MAP[session_id]
CompleteDel(k) ==
    /\ h_pc[k] = "del"
    /\ IF del_raises(SCHEDULED_MAP, h_session_id[k])
       THEN /\ h_pc' = [h_pc EXCEPT ![k] = "except"]
            /\ h_session_id' = [h_session_id EXCEPT ![k] = NoSession]
            /\ h_host' = [h_host EXCEPT ![k] = NoHost]
            /\ UNCHANGED <<SCHEDULED_MAP, deletes>>
       ELSE /\ SCHEDULED_MAP' = del_item(SCHEDULED_MAP, h_session_id[k])
            /\ deletes' = [deletes EXCEPT ![h_session_id[k]] = @ + 1]
            /\ h_pc' = [h_pc EXCEPT ![k] = "put"]
            /\ UNCHANGED <<h_session_id, h_host>>
    /\ UNCHANGED <<registry_vars, caller_vars, RESULT_QUEUE,
                   RESCHEDULE_QUEUE, GLOBAL_LOCK, worker_list, monitor_vars,
                   send_job_vars, rescheduled>>
    /\ UNCHANGED <<trace_vars, catalog_vars>>

\* RESULT_QUEUE.put(payload); the payload is identified by its session id
CompletePut(k) ==
    /\ h_pc[k] = "put"
    /\ RESULT_QUEUE' = Append(RESULT_QUEUE, h_session_id[k])
    /\ h_pc' = [h_pc EXCEPT ![k] = "release"]
    /\ UNCHANGED <<registry_vars, caller_vars, SCHEDULED_MAP,
                   RESCHEDULE_QUEUE, GLOBAL_LOCK, worker_list, monitor_vars,
                   send_job_vars, h_session_id, h_host, history_vars>>
    /\ UNCHANGED <<trace_vars, catalog_vars>>

\* GLOBAL_WORKER_STATE_SET.set_ready_host(host); return 'complete', 202
CompleteRelease(k) ==
    /\ h_pc[k] = "release"
    /\ Apply(set_ready_host(ready_host_set, running_host_set,
                            host_ready_event, h_host[k]))
    /\ h_pc' = [h_pc EXCEPT ![k] = "idle"]
    /\ h_session_id' = [h_session_id EXCEPT ![k] = NoSession]
    /\ h_host' = [h_host EXCEPT ![k] = NoHost]
    /\ UNCHANGED <<caller_vars, global_vars, worker_list, monitor_vars,
                   send_job_vars, history_vars>>
    /\ released_since' = released_since \cup {h_host[k]}
    /\ UNCHANGED <<reconciled_with, session_job, catalog_vars>>

\* `except Exception: LOGGER.exception(...)`: the handler logs and returns
\* nothing
CompleteExcept(k) ==
    /\ h_pc[k] = "except"
    /\ h_pc' = [h_pc EXCEPT ![k] = "idle"]
    /\ UNCHANGED <<registry_vars, caller_vars, global_vars, worker_list,
                   monitor_vars, send_job_vars, h_session_id, h_host,
                   history_vars>>
    /\ UNCHANGED <<trace_vars, catalog_vars>>

HandlerNext(k) ==
    \/ CompleteDel(k)
    \/ CompletePut(k)
    \/ CompleteRelease(k)
    \/ CompleteExcept(k)

Next ==
    \/ MonitorNext
    \/ SendJobNext
    \/ \E k \in Handlers :
         \E sid \in (1..(next_session - 1)) \cup {NoSession} :
            CompleteRequest(k, sid)
    \/ \E k \in Handlers : HandlerNext(k)

Spec == Init /\ [][Next]_vars

\* the threads of the coordinator keep running, and the host listing
\* succeeds again and again; the arrival of a callback is up to the workers
FairSpec ==
    /\ Spec
    /\ WF_vars(MonitorNext)
    /\ SF_vars(\E working_host_set \in SUBSET Hosts :
                  MonitorPoll(working_host_set))
    /\ WF_vars(SendJobNext)
    /\ \A k \in Handlers : WF_vars(HandlerNext(k))

\* ------------------------------------------------------ the program
\* task_graph.add_task(func=create_status_database, ...): with n_workers
\* of -1 the task runs inside add_task, before any thread is started
CreateStatusDatabase ==
    /\ main_pc = "create"
    /\ job_status' = create_status_database
    /\ main_pc' = "run"
    /\ UNCHANGED <<registry_vars, caller_vars, global_vars, worker_list,
                   monitor_vars, send_job_vars, handler_vars, history_vars,
                   trace_vars, sw_pc, row_stiched>>

\* schedule_worker up to cursor.execute of the SELECT; an exception goes
\* to the except block, a result list to the loop over its rows
ScheduleWorkerQuery ==
    /\ main_pc = "run"
    /\ sw_pc = "query"
    /\ sw_pc' = IF execute_raises(job_status) THEN "except" ELSE "loop"
    /\ UNCHANGED <<registry_vars, caller_vars, global_vars, worker_list,
                   monitor_vars, send_job_vars, handler_vars, history_vars,
                   trace_vars, job_status, main_pc, row_stiched>>

\* `except Exception: LOGGER.exception(...); raise`, and the retry
\* decorator of schedule_worker (no stop condition) calls it again
ScheduleWorkerExcept ==
    /\ sw_pc = "except"
    /\ sw_pc' = "query"
    /\ UNCHANGED <<registry_vars, caller_vars, global_vars, worker_list,
                   monitor_vars, send_job_vars, handler_vars, history_vars,
                   trace_vars, job_status, main_pc, row_stiched>>

\* the program as started by the main block: the catalog is created, then
\* the discovery thread, the scheduling thread and the request handlers
\* run. send_job is entered from the loop of schedule_worker only (pc
\* "loop"), which Spec covers.
NextProgram ==
    \/ CreateStatusDatabase
    \/ ScheduleWorkerQuery
    \/ ScheduleWorkerExcept
    \/ MonitorStart
    \/ \E working_host_set \in SUBSET Hosts : MonitorPoll(working_host_set)
    \/ MonitorPollFails
    \/ MonitorLock
    \/ MonitorIter
    \/ MonitorScan
    \/ MonitorSweep
    \/ \E k \in Handlers : CompleteRequest(k, NoSession)
    \/ \E k \in Handlers : CompleteExcept(k)

SpecProgram == InitProgram /\ [][NextProgram]_vars

\* the main thread and the scheduling thread keep running
FairSpecProgram ==
    /\ SpecProgram
    /\ WF_vars(CreateStatusDatabase)
    /\ WF_vars(ScheduleWorkerQuery)
    /\ WF_vars(ScheduleWorkerExcept)

\* ================================================= claims on the registry
\* C1: in every state reachable by any interleaving of add_host,
\* get_ready_host, set_ready_host, remove_host and update_host_set calls, no
\* host is in both ready_host_set and running_host_set.
C1_ReadyRunningDisjoint ==
    ready_host_set \cap running_host_set = {}

\* a running host was released by set_ready_host while another host runs
C1_Witness ==
    /\ last_op.op = "set_ready_host"
    /\ last_op.arg \subseteq last_op.pre_running
    /\ last_op.arg \subseteq ready_host_set
    /\ running_host_set # {}

\* C6: get_ready_host never proceeds on an empty ready set: no call fails
\* (StopIteration), and the locked body always starts from a non-empty
\* ready set and returns one of its members.
C6_NeverProceedsOnEmpty ==
    /\ \A c \in Callers : reg_pc[c] # "raised"
    /\ last_op.op = "get_ready_host" =>
          /\ last_op.pre_ready # {}
          /\ last_op.ret \subseteq last_op.pre_ready

\* C7 as stated: a caller waiting in get_ready_host while ready_host_set
\* is non-empty eventually returns a host, unless another caller was
\* handed one.
C7_NoLostWakeup ==
    \A c \in Callers :
        (reg_pc[c] = "wait" /\ ready_host_set # {})
            ~> (\/ reg_pc[c] = "returned"
                \/ \E c2 \in Callers \ {c} : reg_pc[c2] = "returned")

\* C7 amended: a caller waiting in get_ready_host while ready_host_set is
\* non-empty eventually returns a host, unless ready_host_set is emptied
\* first (its hosts taken by other callers, or removed again by
\* remove_host or update_host_set).
C7_WakeupUnlessEmptied ==
    \A c \in Callers :
        (reg_pc[c] = "wait" /\ ready_host_set # {})
            ~> (reg_pc[c] = "returned" \/ ready_host_set = {})

\* callers are blocked at the wait when add_host makes the empty ready
\* set non-empty and sets the flag
C7_Witness ==
    /\ last_op.op = "add_host"
    /\ last_op.pre_ready = {}
    /\ ready_host_set # {}
    /\ host_ready_event
    /\ \A c \in Callers : reg_pc[c] = "wait"

\* C8: between two moments at which a host enters the ready set,
\* get_ready_host hands it to at most one caller.
C8_ExclusiveAcquire ==
    \A h \in Hosts : granted[h] <= 1

\* two callers have both returned, each with a host of its own
C8_Witness ==
    /\ \A c \in Callers : reg_pc[c] = "returned"
    /\ \E c1, c2 \in Callers : reg_ret[c1] # reg_ret[c2]
    /\ \A c \in Callers : granted[reg_ret[c]] = 1

\* C9: right after update_host_set(active), ready and running are subsets
\* of active and the returned set is the pre-call (ready \cup running) \ active.
C9_UpdateHostSetPost ==
    last_op.op = "update_host_set" =>
        /\ (ready_host_set \cup running_host_set) \subseteq last_op.arg
        /\ last_op.ret =
              (last_op.pre_ready \cup last_op.pre_running) \ last_op.arg

\* a reconcile that dropped a running host, kept one and returned the dead
C9_Witness ==
    /\ last_op.op = "update_host_set"
    /\ last_op.ret \cap last_op.pre_running # {}
    /\ last_op.arg # {}
    /\ last_op.ret # {}

\* ============================================== claims on the coordinator
\* C2: no session has both its result forwarded by processing_complete and
\* its job payload put on RESCHEDULE_QUEUE by the dead-host sweep, and no
\* session is deleted from SCHEDULED_MAP more than once.
C2_NeverResolvedTwice ==
    \A s \in SessionIds :
        /\ ~(s \in forwarded /\ s \in rescheduled)
        /\ deletes[s] <= 1

\* the sweep holds a session in its removal list that a completion
\* callback has resolved in the meantime
C2_Witness ==
    /\ mon_pc = "sweep"
    /\ \E i \in 1..Len(session_list_to_remove) :
          /\ session_list_to_remove[i] \in forwarded
          /\ deletes[session_list_to_remove[i]] = 1

\* C3: a session whose worker is no longer in the registry is eventually
\* deleted from SCHEDULED_MAP.
C3_NoLeakedSession ==
    \A s \in SessionIds :
        (/\ s \in DOMAIN SCHEDULED_MAP
         /\ SCHEDULED_MAP[s].host \notin
               (ready_host_set \cup running_host_set))
            ~> (s \notin DOMAIN SCHEDULED_MAP)

\* the sessions of lost_sessions no completion callback has touched
lost_untouched ==
    {l \in lost_sessions :
        /\ l[1] \notin forwarded
        /\ \A k \in Handlers : h_session_id[k] # l[1]}

\* C4: when a discovery cycle that reported dead hosts has finished, every
\* session that was open on a dead host is gone from SCHEDULED_MAP and the
\* cycle has put exactly one entry per such session on RESCHEDULE_QUEUE,
\* the session's job payload.
C4_DeadHostReschedules ==
    (mon_pc \in {"sleep", "caught"} /\ lost_untouched # {}
        /\ lost_untouched = lost_sessions) =>
        LET put == SubSeq(RESCHEDULE_QUEUE, resched_mark + 1,
                          Len(RESCHEDULE_QUEUE))
        IN  /\ \A l \in lost_sessions : l[1] \notin DOMAIN SCHEDULED_MAP
            /\ Len(put) = Cardinality(lost_sessions)
            /\ {put[i] : i \in 1..Len(put)} = {l[2] : l \in lost_sessions}

\* C5: provided a worker is ready from some point on, the job payload of a
\* session that was open when its worker was reported dead is eventually
\* dispatched again (send_job posts it, or a second session carries it).
C5_LostWorkRedispatched ==
    (<>[](ready_host_set # {})) =>
        \A s \in SessionIds : \A j \in 1..MaxJobs :
            (<<s, j>> \in lost_sessions)
                ~> (\/ /\ sj_pc \in {"post", "record"}
                       /\ job_index <= Len(payload_list)
                       /\ payload_list[job_index] = j
                    \/ \E s2 \in DOMAIN SCHEDULED_MAP :
                          /\ s2 # s
                          /\ SCHEDULED_MAP[s2].job_payload = j)

\* C10: a dispatch attempt that fails after a worker was acquired leaves
\* that worker in neither ready_host_set nor running_host_set, records no
\* session, and the attempt is over with the job still to be sent.
C10_FailedDispatchEvicts ==
    [][(sj_pc = "except" /\ sj_pc' = "wait" /\ worker_ip_port # NoHost) =>
          /\ worker_ip_port \notin ready_host_set'
          /\ worker_ip_port \notin running_host_set'
          /\ SCHEDULED_MAP' = SCHEDULED_MAP
          /\ job_index' = job_index]_vars

\* ============================================ claims on the coordinator, II
\* C11: a failed dispatch never drops a job: the row the dispatcher works on
\* changes only when send_job has recorded the acknowledged session of the
\* current row, and then to the next row; after a failed attempt send_job
\* starts again with the same row, however often it failed before, and the
\* dispatcher finishes only after the last row was acknowledged.
C11_FailureNeverDropsJob ==
    [][/\ (job_index' # job_index) =>
              /\ sj_pc = "record"
              /\ response = "ok"
              /\ session_id \in DOMAIN SCHEDULED_MAP'
              /\ SCHEDULED_MAP'[session_id].job_payload
                     = payload_list[job_index]
              /\ job_index' = job_index + 1
       /\ (sj_pc = "except" /\ sj_pc' # "except") =>
              /\ sj_pc' = "wait"
              /\ job_index' = job_index
       /\ (sj_pc' = "done") => (job_index' = Len(payload_list) + 1)]_vars

\* the first row is acknowledged by the second worker tried: the other
\* worker was acquired by an attempt that failed (it is running, no session
\* was ever bound to it and no callback was ever handled)
C11_Witness ==
    /\ sj_pc = "record"
    /\ job_index = 1
    /\ running_host_set = Hosts
    /\ SCHEDULED_MAP = <<>>
    /\ RESULT_QUEUE = <<>>
    /\ \A k \in Handlers : h_pc[k] = "idle"

\* C12: a completion callback whose session id is not in SCHEDULED_MAP
\* changes no state: whether the id is missing when the handler looks the
\* host up (never issued, absent from the body, or resolved before) or is
\* gone when the handler reaches its del (resolved by a concurrent callback
\* in between), the handler goes to its except block and SCHEDULED_MAP, the
\* ready and running sets, RESULT_QUEUE and RESCHEDULE_QUEUE stay as they
\* were.
C12_UnknownSessionNoChange ==
    [][\A k \in Handlers :
          LET missing_at_lookup ==
                  h_pc[k] = "idle" /\ h_pc'[k] = "except"
              gone_at_del ==
                  /\ h_pc[k] = "del"
                  /\ h_pc'[k] # "del"
                  /\ h_session_id[k] \notin DOMAIN SCHEDULED_MAP
          IN  (missing_at_lookup \/ gone_at_del) =>
                  /\ h_pc'[k] = "except"
                  /\ UNCHANGED <<SCHEDULED_MAP, ready_host_set,
                                 running_host_set, RESULT_QUEUE,
                                 RESCHEDULE_QUEUE>>]_vars

\* a callback is in its except block while one session is open and another
\* was resolved and forwarded before
C12_Witness ==
    /\ \E k \in Handlers : h_pc[k] = "except"
    /\ SCHEDULED_MAP # <<>>
    /\ RESULT_QUEUE # <<>>

\* C13: a completion callback whose session is in SCHEDULED_MAP deletes
\* exactly that session, puts its result on RESULT_QUEUE exactly once, and
\* releases the worker bound to the session: after set_ready_host the worker
\* is in ready_host_set and not in running_host_set. No other session and no
\* other host is touched by any of the three steps.
C13_KnownSessionResolved ==
    [][\A k \in Handlers :
          LET sid == h_session_id[k]
              host == h_host[k]
          IN  /\ (h_pc[k] = "del" /\ h_pc'[k] = "put") =>
                    /\ sid \in DOMAIN SCHEDULED_MAP
                    /\ host = SCHEDULED_MAP[sid].host
                    /\ DOMAIN SCHEDULED_MAP' = DOMAIN SCHEDULED_MAP \ {sid}
                    /\ \A s \in DOMAIN SCHEDULED_MAP' :
                          SCHEDULED_MAP'[s] = SCHEDULED_MAP[s]
                    /\ UNCHANGED <<ready_host_set, running_host_set,
                                   RESULT_QUEUE, RESCHEDULE_QUEUE>>
              /\ (h_pc[k] = "put" /\ h_pc'[k] = "release") =>
                    /\ sid \notin forwarded
                    /\ RESULT_QUEUE' = Append(RESULT_QUEUE, sid)
                    /\ UNCHANGED <<ready_host_set, running_host_set,
                                   SCHEDULED_MAP, RESCHEDULE_QUEUE>>
              /\ (h_pc[k] = "release" /\ h_pc'[k] = "idle") =>
                    /\ host \in ready_host_set'
                    /\ host \notin running_host_set'
                    /\ ready_host_set' \ {host} = ready_host_set \ {host}
                    /\ running_host_set' \ {host}
                           = running_host_set \ {host}
                    /\ Cardinality({i \in 1..Len(RESULT_QUEUE') :
                                       RESULT_QUEUE'[i] = sid}) = 1
                    /\ UNCHANGED <<SCHEDULED_MAP, RESULT_QUEUE,
                                   RESCHEDULE_QUEUE>>]_vars

\* the callback for the first session has been handled to the end (its
\* worker is ready again) while the session on the other worker is untouched
C13_Witness ==
    /\ 1 \in forwarded
    /\ \A k \in Handlers : h_pc[k] = "idle"
    /\ DOMAIN SCHEDULED_MAP = {2}
    /\ ready_host_set = Hosts \ {SCHEDULED_MAP[2].host}
    /\ running_host_set = {SCHEDULED_MAP[2].host}

\* C14: the worker bound to each session in SCHEDULED_MAP is in
\* running_host_set; stated for the states in which the discovery loop is
\* not in the middle of a dead-host sweep, which are among the reachable
\* states the claim speaks of.
C14_SessionWorkerRunning ==
    (mon_pc \notin {"lock", "iter", "scan", "sweep"}) =>
        \A s \in DOMAIN SCHEDULED_MAP :
            SCHEDULED_MAP[s].host \in running_host_set

\* C16: no two open sessions are bound to the same worker address, also
\* when discovery drops a worker and reports it again later.
C16_OneSessionPerWorker ==
    \A s1, s2 \in DOMAIN SCHEDULED_MAP :
        (s1 # s2) => (SCHEDULED_MAP[s1].host # SCHEDULED_MAP[s2].host)

\* C15: once the discovery loop has reconciled the registry for the first
\* time, every host in ready_host_set or running_host_set is a member of
\* the host set of the most recent reconciliation: neither the dispatcher
\* nor the completion handler brings back a host discovery has dropped.
C15_TrackedHostsDiscovered ==
    (reconciled_with # <<>>) =>
        (ready_host_set \cup running_host_set) \subseteq reconciled_with[1]

\* C15 (amended): every tracked host is a member of the host set of the
\* most recent reconciliation, or a completion callback has released it
\* with set_ready_host since that reconciliation; the dispatcher brings no
\* host back.
C15_DiscoveredOrReleased ==
    (reconciled_with # <<>>) =>
        (ready_host_set \cup running_host_set)
            \subseteq (reconciled_with[1] \cup released_since)

\* a host the latest poll did not list is ready again because a callback
\* released it afterwards
C15_Witness ==
    /\ reconciled_with # <<>>
    /\ \E h \in ready_host_set :
          /\ h \notin reconciled_with[1]
          /\ h \in released_since

\* ================================================ claims on the program
\* C17: the dispatcher drains the backlog: once the work catalog is
\* initialized, schedule_worker reads the rows whose stiched flag is 0 and
\* goes on to issue a dispatch call for each of them. Stated by what every
\* such run needs first: the SELECT returns its rows and schedule_worker
\* enters the loop that calls send_job.
C17_BacklogRead ==
    (job_status # <<>>) ~> (sw_pc = "loop")

\* C19: with GRID_STEP_SIZE = 2 the table holds, for each scenario_id and
\* raster_id, exactly (180/2)*(360/2) = 16200 rows whose cells
\* (lng_min, lat_min, lng_max, lat_max) are distinct, do not overlap, and
\* cover exactly latitude [-90, 90) by longitude [-180, 180): no gap and no
\* cell outside. Cell corners are whole degrees, so the extent and the
\* cells are compared by the one-degree squares they consist of.
C19_GridCoversExtent ==
    (job_status # <<>>) =>
        \A p \in 1..Len(job_status.scenario_raster) :
            LET pair == job_status.scenario_raster[p]
                rows == job_status_rows(job_status, pair[1], pair[2])
                cells == {<<rows[i][3], rows[i][4], rows[i][5], rows[i][6]>> :
                             i \in 1..Len(rows)}
                squares(c) == (c[1]..(c[3] - 1)) \X (c[2]..(c[4] - 1))
                covered == UNION {squares(c) : c \in cells}
            IN  /\ Len(rows) = 16200
                /\ Cardinality(cells) = 16200
                /\ \A c \in cells : Cardinality(squares(c))
                                       = GRID_STEP_SIZE * GRID_STEP_SIZE
                /\ Cardinality(covered)
                       = 16200 * GRID_STEP_SIZE * GRID_STEP_SIZE
                /\ covered = ((-180)..179) \X ((-90)..89)

\* ============================================ claims on the coordinator, III
\* C18: with one worker in the registry (the static list names a single
\* host) the dispatch calls are serialized: whenever send_job holds the
\* worker for a POST, every session issued before has been deleted and
\* forwarded and its callback has released the worker; and once the results
\* of all rows have been forwarded and no callback is still at work, no
\* host is running, the worker is ready and SCHEDULED_MAP is empty.
C18_SingleWorkerSerialized ==
    (Cardinality(worker_list) = 1) =>
        LET earlier == IF sj_pc = "record"
                       THEN 1..(next_session - 2)
                       ELSE 1..(next_session - 1)
            at_work(k) == h_pc[k] \in {"put", "release"}
        IN  /\ (sj_pc \in {"post", "record"}) =>
                  /\ running_host_set = {worker_ip_port}
                  /\ \A s \in earlier :
                        /\ s \in forwarded
                        /\ s \notin DOMAIN SCHEDULED_MAP
                        /\ \A k \in Handlers :
                              ~(at_work(k) /\ h_session_id[k] = s)
            /\ (/\ forwarded = 1..Len(payload_list)
                /\ \A k \in Handlers : ~at_work(k)) =>
                  /\ get_counts(ready_host_set, running_host_set) = <<0, 1>>
                  /\ ready_host_set = worker_list
                  /\ SCHEDULED_MAP = <<>>

\* one worker, every row dispatched, completed and released
C18_Witness ==
    /\ Cardinality(worker_list) = 1
    /\ sj_pc = "done"
    /\ Len(RESULT_QUEUE) = Len(payload_list)
    /\ \A k \in Handlers : h_pc[k] = "idle"
    /\ ready_host_set = worker_list

\* C20: the stiched flag of a work item goes from 0 to 1 when its
\* completion is confirmed: once the callback for the session of a row has
\* been processed (its result is forwarded and no handler is still working
\* on it), the flag of that row is 1.
C20_StitchedAfterCompletion ==
    \A s \in forwarded :
        (\A k \in Handlers : h_session_id[k] # s) =>
            row_stiched[session_job[s]] = 1

\* ============================================ claims on the coordinator, IV
\* C21: in polling mode (no static worker list) new_host_monitor never
\* terminates: it never returns, and after a failure anywhere in a cycle
\* (the listing, the scan, the sweep) the next poll can be taken; a cycle
\* that fails in the listing, before update_host_set, leaves the registry
\* and SCHEDULED_MAP as they were.
C21_PollingLoopSurvives ==
    /\ [](worker_list = {} => mon_pc # "returned")
    /\ [](mon_pc = "caught" =>
            ENABLED (\E working_host_set \in SUBSET Hosts :
                        MonitorPoll(working_host_set)))
    /\ [][(mon_pc \in {"poll", "sleep", "caught"} /\ mon_pc' # mon_pc) =>
              (mon_pc' \in {"caught", "sleep", "lock"})]_vars
    /\ [][((mon_pc \in {"poll", "sleep"} /\ mon_pc' = "caught")
              \/ MonitorPollFails) =>
              (/\ mon_pc' = "caught"
               /\ UNCHANGED <<ready_host_set, running_host_set,
                              host_ready_event, SCHEDULED_MAP>>)]_vars

\* the loop is back at its top after a cycle that got past the listing
\* failed: the sessions that cycle found on dead hosts are still noted
C21_Witness ==
    /\ worker_list = {}
    /\ mon_pc = "caught"
    /\ lost_sessions # {}

\* C22: operations on SCHEDULED_MAP are mutually atomic: from the start of
\* the sweep's scan to its last delete (the monitor holds GLOBAL_LOCK), no
\* send_job stores a session and no processing_complete deletes one.
C22_SweepSeesStableTable ==
    [][(mon_pc \in {"iter", "scan", "sweep"} /\ GLOBAL_LOCK) =>
          /\ ~(sj_pc = "record" /\ sj_pc' # "record")
          /\ \A k \in Handlers : ~(h_pc[k] = "del" /\ h_pc'[k] = "put")]_vars

\* ================================================ claims on the registry, II
\* C23: update_host_set(active) leaves every tracked host that is in active
\* where it was: a running host in active is still running and not ready,
\* a ready host in active is still ready and not running. The hosts it adds
\* are exactly the members of active that were not tracked, and they are
\* added to ready_host_set; none is added to running_host_set.
C23_ReconcileKeepsTrackedState ==
    last_op.op = "update_host_set" =>
        LET active == last_op.arg
            tracked == last_op.pre_ready \cup last_op.pre_running
        IN  /\ \A h \in active :
                  /\ (h \in last_op.pre_running) =>
                        (h \in running_host_set /\ h \notin ready_host_set)
                  /\ (h \in last_op.pre_ready) =>
                        (h \in ready_host_set /\ h \notin running_host_set)
                  /\ (h \notin tracked) =>
                        (h \in ready_host_set /\ h \notin running_host_set)
            /\ ready_host_set \ last_op.pre_ready = active \ tracked
            /\ running_host_set \subseteq last_op.pre_running

\* the host set of a reconcile named two hosts:
\* a running host that stayed running and an untracked host that was added
C23_Witness ==
    /\ last_op.op = "update_host_set"
    /\ \E h \in last_op.arg : h \in last_op.pre_running
    /\ \E h \in last_op.arg :
          h \notin last_op.pre_ready \cup last_op.pre_running

\* ============================================ claims on the coordinator, V
\* C24: a completion callback is never handled before its session is
\* recorded: while send_job has the acknowledgement of a dispatch but has
\* not yet stored the session, no handler looks that session id up (and
\* finds nothing).
C24_CallbackAfterRecord ==
    [][\A k \in Handlers :
          ~(/\ sj_pc = "record"
            /\ session_id \notin DOMAIN SCHEDULED_MAP
            /\ CompleteRequest(k, session_id))]_vars

\* C25: no worker capacity is orphaned: every host in running_host_set is
\* bound to an open session, or is the host a dispatch attempt in progress
\* holds, or is the host of a session a callback has deleted and is about to
\* release. Once the attempt or the callback has ended, no host is running
\* without an open session.
C25_NoOrphanedRunningHost ==
    \A h \in running_host_set :
        \/ \E s \in DOMAIN SCHEDULED_MAP : SCHEDULED_MAP[s].host = h
        \/ sj_pc \in {"post", "record", "except"} /\ worker_ip_port = h
        \/ \E k \in Handlers : h_pc[k] \in {"put", "release"} /\ h_host[k] = h

====
